---- MODULE Spec2Model ----
(***************************************************************************)
(* Model of src/script.py: the task registry SistemaDeTareas (a dict of    *)
(* Tarea objects in insertion order) and its priority queue, a heapq list  *)
(* of references to the same Tarea objects.                                *)
(*                                                                         *)
(* A Tarea is a record; the registry `tareas` is the sequence of the       *)
(* dict's values in insertion order; `cola_prioridad` is the heapq list,   *)
(* holding the names of the referenced tasks (a task object is never       *)
(* replaced or removed, so a name identifies the object).                  *)
(***************************************************************************)
EXTENDS Integers, Sequences, FiniteSets, TLC

\* ---------------------------------------------------------------- bounds
\* the most tasks a registry, and a file written from one, holds
MaxTasks == 2

\* ---------------------------------------------------------------- inputs
Nombres == {"A", "B", "C"}
\* a name that is used as a dependency but is never added
Ghost == "Ghost"
Prioridades == {1, 2}
\* date strings 'YYYY-MM-DD', as the digits of the year, the month and the
\* day: '0999-01-05' and '2024-01-10'
Fechas == {<<<<0, 9, 9, 9>>, 1, 5>>, <<<<2, 0, 2, 4>>, 1, 10>>}
\* None / JSON null where a date string is expected
Null == <<>>
\* None where a datetime is expected
NoDate == 0

RECURSIVE SeqsUpTo(_, _)
SeqsUpTo(S, n) ==
    IF n = 0 THEN {<<>>}
    ELSE LET shorter == SeqsUpTo(S, n - 1)
         IN  shorter \cup {Append(s, x) : s \in {t \in shorter : Len(t) = n - 1}, x \in S}

\* Spec: every priority and due date, the dependencies fixed by the name
Grafo == [n \in Nombres |->
            IF n = "A" THEN <<>> ELSE IF n = "B" THEN <<"A">> ELSE <<"A", Ghost>>]

ArgsOrden ==
    {a \in [nombre : Nombres, prioridad : Prioridades,
            dependencias : {Grafo[n] : n \in Nombres},
            vencimiento : Fechas \cup {Null}] : a.dependencias = Grafo[a.nombre]}

\* SpecDep: every dependency list, one priority and no due date
Dependencias == {<<>>, <<"A">>, <<"A", Ghost>>}

ArgsDep ==
    [nombre : Nombres, prioridad : {1}, dependencias : Dependencias,
     vencimiento : {Null}]

\* ------------------------------------------------------------- datetime
\* the number a sequence of decimal digits writes
RECURSIVE Valor(_)
Valor(digitos) ==
    IF digitos = <<>> THEN 0
    ELSE 10 * Valor(SubSeq(digitos, 1, Len(digitos) - 1)) + digitos[Len(digitos)]

\* the decimal digits of a number, without leading zeros
RECURSIVE Digitos(_)
Digitos(n) == IF n < 10 THEN <<n>> ELSE Append(Digitos(n \div 10), n % 10)

\* whether strptime(s, '%Y-%m-%d') accepts s: %Y takes exactly four digits
FormatoValido(s) == Len(s[1]) = 4

\* datetime.strptime(s, '%Y-%m-%d') of an accepted s: the date as a day count
strptime(s) == (Valor(s[1]) * 12 + (s[2] - 1)) * 31 + (s[3] - 1)

\* datetime.strftime('%Y-%m-%d'), as the C library of the Linux build formats
\* it: %Y is the year without zero padding
strftime(d) == <<Digitos(d \div 372), ((d % 372) \div 31) + 1, (d % 31) + 1>>

\* datetime.max, 9999-12-31 23:59:59.999999: later than every date
DatetimeMax == (9999 * 12 + 11) * 31 + 31

\* ---------------------------------------------------------------- Tarea
Tarea(nombre, prioridad, dependencias, vencimiento) ==
    [nombre |-> nombre,
     prioridad |-> prioridad,
     dependencias |-> dependencias,
     vencimiento |-> IF vencimiento # Null THEN strptime(vencimiento) ELSE NoDate,
     completada |-> FALSE]

\* `nombre in self.tareas`
Existe(ts, nombre) == \E i \in 1..Len(ts) : ts[i].nombre = nombre

\* self.tareas[nombre]
Obtener(ts, nombre) == ts[CHOOSE i \in 1..Len(ts) : ts[i].nombre = nombre]

\* a missing dependency taken as satisfied
DepCompletada_faltante_cumplida(ts, dep) ==
    IF Existe(ts, dep) THEN Obtener(ts, dep).completada ELSE TRUE

\* tareas.get(dep, Tarea("", 0)).completada
DepCompletada(ts, dep) ==
    IF Existe(ts, dep) THEN Obtener(ts, dep).completada
    ELSE Tarea("", 0, <<>>, Null).completada

RECURSIVE TodasDesde(_, _, _)
TodasDesde(deps, ts, i) ==
    IF i > Len(deps) THEN TRUE
    ELSE IF DepCompletada(ts, deps[i]) THEN TodasDesde(deps, ts, i + 1)
    ELSE FALSE

\* es_ejecutable with any() in the place of all()
es_ejecutable_alguna(t, ts) ==
    \E i \in 1..Len(t.dependencias) : DepCompletada(ts, t.dependencias[i])

es_ejecutable(t, ts) == TodasDesde(t.dependencias, ts, 1)

\* __lt__ with the due-date test inverted: a task without due date first
lt_sin_vencimiento_primero(self, other) ==
    IF self.prioridad = other.prioridad
    THEN IF self.vencimiento # NoDate /\ other.vencimiento # NoDate
         THEN self.vencimiento < other.vencimiento
         ELSE self.vencimiento = NoDate
    ELSE self.prioridad < other.prioridad

\* Tarea.__lt__
lt(self, other) ==
    IF self.prioridad = other.prioridad
    THEN IF self.vencimiento # NoDate /\ other.vencimiento # NoDate
         THEN self.vencimiento < other.vencimiento
         ELSE self.vencimiento # NoDate
    ELSE self.prioridad < other.prioridad

\* ---------------------------------------------------------------- heapq
\* heaps are 1-based here: the parent of position p is p \div 2
RECURSIVE siftdown(_, _, _, _, _)
siftdown(ts, heap, startpos, pos, newitem) ==
    IF pos > startpos /\ lt(Obtener(ts, newitem), Obtener(ts, heap[pos \div 2]))
    THEN siftdown(ts, [heap EXCEPT ![pos] = heap[pos \div 2]], startpos, pos \div 2, newitem)
    ELSE [heap EXCEPT ![pos] = newitem]

RECURSIVE siftup(_, _, _, _, _)
siftup(ts, heap, startpos, pos, newitem) ==
    LET childpos == 2 * pos
        rightpos == childpos + 1
        smaller == IF rightpos <= Len(heap)
                      /\ ~lt(Obtener(ts, heap[childpos]), Obtener(ts, heap[rightpos]))
                   THEN rightpos ELSE childpos
    IN  IF childpos <= Len(heap)
        THEN siftup(ts, [heap EXCEPT ![pos] = heap[smaller]], startpos, smaller, newitem)
        ELSE siftdown(ts, [heap EXCEPT ![pos] = newitem], startpos, pos, newitem)

\* list.append in the place of heapq.heappush
heappush_sin_ordenar(ts, heap, item) == Append(heap, item)

heappush(ts, heap, item) ==
    siftdown(ts, Append(heap, item), 1, Len(heap) + 1, item)

\* heappop of a non-empty heap: the item returned and the heap left
heappop(ts, heap) ==
    LET lastelt == heap[Len(heap)]
        rest == SubSeq(heap, 1, Len(heap) - 1)
    IN  IF rest # <<>>
        THEN [item |-> rest[1], heap |-> siftup(ts, rest, 1, 1, lastelt)]
        ELSE [item |-> lastelt, heap |-> rest]

\* ------------------------------------------------------ SistemaDeTareas
\* outcomes of a call
Ok == "ok"
ErrDuplicada == "Ya existe una tarea con ese nombre."
ErrNoExiste == "La tarea no existe."
ErrYaCompletada == "La tarea ya esta completada."
ErrFormato == "time data does not match format '%Y-%m-%d'"

\* agregar_tarea pushing onto the heap before it tests the name
agregar_tarea_empuja_antes(ts, cola, nombre, prioridad, dependencias, vencimiento) ==
    LET nueva_tarea == Tarea(nombre, prioridad, dependencias, vencimiento)
    IN  IF Existe(ts, nombre)
        THEN [tareas |-> ts, cola |-> heappush(ts, cola, nombre), error |-> ErrDuplicada]
        ELSE IF vencimiento # Null /\ ~FormatoValido(vencimiento)
        THEN [tareas |-> ts, cola |-> cola, error |-> ErrFormato]
        ELSE [tareas |-> Append(ts, nueva_tarea),
              cola |-> heappush(Append(ts, nueva_tarea), cola, nombre),
              error |-> Ok]

agregar_tarea(ts, cola, nombre, prioridad, dependencias, vencimiento) ==
    IF Existe(ts, nombre)
    THEN [tareas |-> ts, cola |-> cola, error |-> ErrDuplicada]
    ELSE IF vencimiento # Null /\ ~FormatoValido(vencimiento)
    THEN [tareas |-> ts, cola |-> cola, error |-> ErrFormato]
    ELSE LET nueva_tarea == Tarea(nombre, prioridad, dependencias, vencimiento)
             ts2 == Append(ts, nueva_tarea)
         IN  [tareas |-> ts2, cola |-> heappush(ts2, cola, nombre), error |-> Ok]

\* the flag set by storing a new Tarea under the name: priority kept, the
\* dependencies and the due date at their defaults
PonerCompletada_tarea_nueva(ts, nombre, valor) ==
    [i \in 1..Len(ts) |->
        IF ts[i].nombre = nombre
        THEN [Tarea(nombre, ts[i].prioridad, <<>>, Null) EXCEPT !.completada = valor]
        ELSE ts[i]]

\* tarea.completada = valor, on the task registered under nombre
PonerCompletada(ts, nombre, valor) ==
    [i \in 1..Len(ts) |->
        IF ts[i].nombre = nombre THEN [ts[i] EXCEPT !.completada = valor] ELSE ts[i]]

\* [t.nombre for t in self.tareas.values() if not t.completada and t.es_ejecutable(self.tareas)]
RECURSIVE Ejecutables(_, _)
Ejecutables(ts, i) ==
    IF i > Len(ts) THEN <<>>
    ELSE IF ~ts[i].completada /\ es_ejecutable(ts[i], ts)
         THEN <<ts[i].nombre>> \o Ejecutables(ts, i + 1)
         ELSE Ejecutables(ts, i + 1)

\* completar_tarea refusing a task that is not executable
completar_tarea_exige_dependencias(ts, nombre) ==
    IF ~Existe(ts, nombre)
    THEN [tareas |-> ts, error |-> ErrNoExiste, ejecutables |-> <<>>]
    ELSE IF Obtener(ts, nombre).completada
    THEN [tareas |-> ts, error |-> ErrYaCompletada, ejecutables |-> <<>>]
    ELSE IF ~es_ejecutable(Obtener(ts, nombre), ts)
    THEN [tareas |-> ts, error |-> "La tarea no es ejecutable.", ejecutables |-> <<>>]
    ELSE LET ts2 == PonerCompletada(ts, nombre, TRUE)
         IN  [tareas |-> ts2, error |-> Ok, ejecutables |-> Ejecutables(ts2, 1)]

\* completar_tarea returning quietly for a name that is not registered
completar_tarea_silenciosa(ts, nombre) ==
    IF ~Existe(ts, nombre)
    THEN [tareas |-> ts, error |-> Ok, ejecutables |-> <<>>]
    ELSE IF Obtener(ts, nombre).completada
    THEN [tareas |-> ts, error |-> ErrYaCompletada, ejecutables |-> <<>>]
    ELSE LET ts2 == PonerCompletada(ts, nombre, TRUE)
         IN  [tareas |-> ts2, error |-> Ok, ejecutables |-> Ejecutables(ts2, 1)]

\* completar_tarea without the test of the flag
completar_tarea_sin_prueba(ts, nombre) ==
    IF ~Existe(ts, nombre)
    THEN [tareas |-> ts, error |-> ErrNoExiste, ejecutables |-> <<>>]
    ELSE LET ts2 == PonerCompletada(ts, nombre, TRUE)
         IN  [tareas |-> ts2, error |-> Ok, ejecutables |-> Ejecutables(ts2, 1)]

\* completar_tarea flipping the flag back on a completed task
completar_tarea_alterna(ts, nombre) ==
    IF ~Existe(ts, nombre)
    THEN [tareas |-> ts, error |-> ErrNoExiste, ejecutables |-> <<>>]
    ELSE LET ts2 == PonerCompletada(ts, nombre, ~Obtener(ts, nombre).completada)
         IN  [tareas |-> ts2, error |-> Ok, ejecutables |-> Ejecutables(ts2, 1)]

completar_tarea(ts, nombre) ==
    IF ~Existe(ts, nombre)
    THEN [tareas |-> ts, error |-> ErrNoExiste, ejecutables |-> <<>>]
    ELSE IF Obtener(ts, nombre).completada
    THEN [tareas |-> ts, error |-> ErrYaCompletada, ejecutables |-> <<>>]
    ELSE LET ts2 == PonerCompletada(ts, nombre, TRUE)
         IN  [tareas |-> ts2, error |-> Ok, ejecutables |-> Ejecutables(ts2, 1)]

\* obtener_tarea_mayor_prioridad pushing the task it returns onto the heap
\* the task was read from, not onto the heap left by the pop
RECURSIVE obtener_reinserta_de_mas(_, _)
obtener_reinserta_de_mas(ts, cola) ==
    IF cola = <<>>
    THEN [tarea |-> Null, cola |-> cola]
    ELSE LET p == heappop(ts, cola)
         IN  IF ~Obtener(ts, p.item).completada
             THEN [tarea |-> <<p.item>>, cola |-> heappush(ts, cola, p.item)]
             ELSE obtener_reinserta_de_mas(ts, p.heap)

\* obtener_tarea_mayor_prioridad without the heappush of the task it returns
RECURSIVE obtener_sin_reinsertar(_, _)
obtener_sin_reinsertar(ts, cola) ==
    IF cola = <<>>
    THEN [tarea |-> Null, cola |-> cola]
    ELSE LET p == heappop(ts, cola)
         IN  IF ~Obtener(ts, p.item).completada
             THEN [tarea |-> <<p.item>>, cola |-> p.heap]
             ELSE obtener_sin_reinsertar(ts, p.heap)

\* the task returned (its name, or Null for None) and the heap left
RECURSIVE obtener_tarea_mayor_prioridad(_, _)
obtener_tarea_mayor_prioridad(ts, cola) ==
    IF cola = <<>>
    THEN [tarea |-> Null, cola |-> cola]
    ELSE LET p == heappop(ts, cola)
         IN  IF ~Obtener(ts, p.item).completada
             THEN [tarea |-> <<p.item>>, cola |-> heappush(ts, p.heap, p.item)]
             ELSE obtener_tarea_mayor_prioridad(ts, p.heap)

\* the key without the due date: key=lambda x: x.prioridad
clave_solo_prioridad(t) == <<t.prioridad, DatetimeMax>>

\* the key with datetime.min in the place of datetime.max
clave_sin_fecha_primero(t) ==
    <<t.prioridad, IF t.vencimiento # NoDate THEN t.vencimiento ELSE 0>>

\* the key of sorted(): (x.prioridad, x.vencimiento or datetime.max)
clave(t) == <<t.prioridad, IF t.vencimiento # NoDate THEN t.vencimiento ELSE DatetimeMax>>

\* tuple comparison k1 <= k2
ClaveMenorIgual(k1, k2) == k1[1] < k2[1] \/ (k1[1] = k2[1] /\ k1[2] <= k2[2])

\* sorted(lista, key=clave): stable, an item goes after the items whose key
\* is not greater than its own
RECURSIVE Insertar(_, _)
Insertar(ordenadas, t) ==
    IF ordenadas = <<>> THEN <<t>>
    ELSE LET ultimo == ordenadas[Len(ordenadas)]
         IN  IF ClaveMenorIgual(clave(ultimo), clave(t))
             THEN Append(ordenadas, t)
             ELSE Append(Insertar(SubSeq(ordenadas, 1, Len(ordenadas) - 1), t), ultimo)

RECURSIVE sorted(_, _)
sorted(lista, n) ==
    IF n = 0 THEN <<>> ELSE Insertar(sorted(lista, n - 1), lista[n])

\* [t for t in self.cola_prioridad if not t.completada]
RECURSIVE Pendientes(_, _, _)
Pendientes(ts, cola, i) ==
    IF i > Len(cola) THEN <<>>
    ELSE IF ~Obtener(ts, cola[i]).completada
         THEN <<Obtener(ts, cola[i])>> \o Pendientes(ts, cola, i + 1)
         ELSE Pendientes(ts, cola, i + 1)

\* one row of the table: name, priority, due date as text (Null for "Sin vencimiento")
Fila(t) ==
    [nombre |-> t.nombre,
     prioridad |-> t.prioridad,
     vencimiento |-> IF t.vencimiento # NoDate THEN strftime(t.vencimiento) ELSE Null]

\* the rows of the table, top to bottom
mostrar_tareas_ordenadas(ts, cola) ==
    LET filtradas == Pendientes(ts, cola, 1)
        tareas_ordenadas == sorted(filtradas, Len(filtradas))
    IN  [i \in 1..Len(tareas_ordenadas) |-> Fila(tareas_ordenadas[i])]

\* the JSON object written, as the sequence of its entries
guardar_en_archivo(ts) ==
    [i \in 1..Len(ts) |->
        [nombre |-> ts[i].nombre,
         prioridad |-> ts[i].prioridad,
         dependencias |-> ts[i].dependencias,
         vencimiento |-> IF ts[i].vencimiento # NoDate
                         THEN strftime(ts[i].vencimiento) ELSE Null,
         completada |-> ts[i].completada]]

\* the loop storing each entry in the registry directly, without
\* agregar_tarea and so without the heappush
RECURSIVE CargarDesde_sin_cola(_, _, _, _)
CargarDesde_sin_cola(ts, cola, data, i) ==
    IF i > Len(data)
    THEN [tareas |-> ts, cola |-> cola, error |-> Ok]
    ELSE LET info == data[i]
         IN  IF Existe(ts, info.nombre)
             THEN [tareas |-> ts, cola |-> cola, error |-> ErrDuplicada]
             ELSE CargarDesde_sin_cola(
                      PonerCompletada(
                          Append(ts, Tarea(info.nombre, info.prioridad,
                                           info.dependencias, info.vencimiento)),
                          info.nombre, info.completada),
                      cola, data, i + 1)

\* the loop over data.items(), from entry i on; a failing agregar_tarea
\* ends it with the state reached so far
RECURSIVE CargarDesde(_, _, _, _)
CargarDesde(ts, cola, data, i) ==
    IF i > Len(data)
    THEN [tareas |-> ts, cola |-> cola, error |-> Ok]
    ELSE LET info == data[i]
             r == agregar_tarea(ts, cola, info.nombre, info.prioridad,
                                info.dependencias, info.vencimiento)
         IN  IF r.error # Ok
             THEN r
             ELSE CargarDesde(PonerCompletada(r.tareas, info.nombre, info.completada),
                              r.cola, data, i + 1)

\* archivo: whether the file exists, and the entries of its JSON object
cargar_desde_archivo(ts, cola, archivo) ==
    IF archivo.existe
    THEN CargarDesde(ts, cola, archivo.data, 1)
    ELSE [tareas |-> ts, cola |-> cola, error |-> Ok]

\* ------------------------------------------------------------ the state
VARIABLES
    tareas,          \* self.tareas, the values in insertion order
    cola_prioridad,  \* self.cola_prioridad, the heapq list
    last,            \* the last call: operation, argument, outcome, result
    llamadas,        \* history, kept under SpecHistoria only: the registered
                     \* names completar_tarea has been called with
    flujo            \* menu option 5: the statements the main thread has
                     \* run, the backup thread, the snapshot file on disk
                     \* and what the backup copy read from it

vars == <<tareas, cola_prioridad, last, llamadas, flujo>>

NoCall ==
    [op |-> "init", nombre |-> "", error |-> Ok, ejecutables |-> <<>>,
     tarea |-> Null, vista |-> <<>>, archivo |-> [existe |-> FALSE, data |-> <<>>]]

\* the main thread in the menu loop, no backup thread, the file as an
\* earlier run left it
InicioFlujo ==
    [main |-> 0, hilo |-> "sin_iniciar", archivo |-> "anterior", leido |-> "nada"]

\* sistema = SistemaDeTareas()
Init ==
    /\ tareas = <<>>
    /\ cola_prioridad = <<>>
    /\ last = NoCall
    /\ llamadas = {}
    /\ flujo = InicioFlujo

\* the operations are called while the menu loop runs
EnMenu ==
    /\ flujo.main = 0
    /\ UNCHANGED flujo

Agregar(Args) ==
    \E a \in Args :
        LET r == agregar_tarea(tareas, cola_prioridad, a.nombre, a.prioridad,
                               a.dependencias, a.vencimiento)
        IN  /\ EnMenu
            /\ Len(r.tareas) <= MaxTasks
            /\ tareas' = r.tareas
            /\ cola_prioridad' = r.cola
            /\ last' = [NoCall EXCEPT !.op = "agregar", !.nombre = a.nombre,
                                      !.error = r.error]
            /\ UNCHANGED llamadas

Completar(historia) ==
    \E nombre \in Nombres :
        LET r == completar_tarea(tareas, nombre)
        IN  /\ EnMenu
            /\ tareas' = r.tareas
            /\ UNCHANGED cola_prioridad
            /\ last' = [NoCall EXCEPT !.op = "completar", !.nombre = nombre,
                                      !.error = r.error,
                                      !.ejecutables = r.ejecutables]
            /\ llamadas' = IF historia /\ Existe(tareas, nombre)
                           THEN llamadas \cup {nombre} ELSE llamadas

ObtenerMayor ==
    LET r == obtener_tarea_mayor_prioridad(tareas, cola_prioridad)
    IN  /\ EnMenu
        /\ cola_prioridad' = r.cola
        /\ UNCHANGED tareas
        /\ last' = [NoCall EXCEPT !.op = "obtener", !.tarea = r.tarea]
        /\ UNCHANGED llamadas

Mostrar ==
    /\ EnMenu
    /\ UNCHANGED <<tareas, cola_prioridad, llamadas>>
    /\ last' = [NoCall EXCEPT !.op = "mostrar",
                              !.vista = mostrar_tareas_ordenadas(tareas, cola_prioridad)]

Guardar ==
    /\ EnMenu
    /\ UNCHANGED <<tareas, cola_prioridad, llamadas>>
    /\ last' = [NoCall EXCEPT !.op = "guardar",
                              !.archivo = [existe |-> TRUE,
                                           data |-> guardar_en_archivo(tareas)]]

\* the files cargar_desde_archivo is given: a missing file, or entries with
\* distinct names, as the keys of a parsed JSON object are
Archivos(Entradas) ==
    {[existe |-> FALSE, data |-> <<>>]} \cup
    {[existe |-> TRUE, data |-> d] :
        d \in {s \in SeqsUpTo(Entradas, MaxTasks) :
                  \A i, j \in 1..Len(s) : i # j => s[i].nombre # s[j].nombre}}

\* the tasks the files hold
NombresArchivo == {"B", "C"}

EntradasOrden ==
    {e \in [nombre : NombresArchivo, prioridad : {1},
            dependencias : {Grafo[n] : n \in Nombres},
            vencimiento : {Null}, completada : BOOLEAN] :
        e.dependencias = Grafo[e.nombre]}

EntradasDep ==
    [nombre : NombresArchivo, prioridad : {1}, dependencias : {<<>>},
     vencimiento : {Null}, completada : BOOLEAN]

Cargar(Entradas) ==
    \E archivo \in Archivos(Entradas) :
        LET r == cargar_desde_archivo(tareas, cola_prioridad, archivo)
        IN  /\ EnMenu
            /\ Len(r.tareas) <= MaxTasks
            /\ tareas' = r.tareas
            /\ cola_prioridad' = r.cola
            /\ last' = [NoCall EXCEPT !.op = "cargar", !.error = r.error,
                                      !.archivo = [existe |-> archivo.existe,
                                                   data |-> <<>>]]
            /\ UNCHANGED llamadas

Next ==
    \/ Agregar(ArgsOrden)
    \/ Completar(FALSE)
    \/ ObtenerMayor
    \/ Mostrar
    \/ Guardar
    \/ Cargar(EntradasOrden)

Spec == Init /\ [][Next]_vars

NextDep ==
    \/ Agregar(ArgsDep)
    \/ Completar(FALSE)
    \/ ObtenerMayor
    \/ Mostrar
    \/ Guardar
    \/ Cargar(EntradasDep)

SpecDep == Init /\ [][NextDep]_vars

\* SpecHistoria: one priority, no due date, the dependencies fixed by the
\* name, and the history of the completar_tarea calls
ArgsHistoria == {a \in ArgsOrden : a.prioridad = 1 /\ a.vencimiento = Null}

NextHistoria ==
    \/ Agregar(ArgsHistoria)
    \/ Completar(TRUE)
    \/ ObtenerMayor
    \/ Mostrar
    \/ Guardar
    \/ Cargar(EntradasOrden)

SpecHistoria == Init /\ [][NextHistoria]_vars

\* ------------------------------------------------- menu option 5, "Salir"
\* the main thread with the backup thread started before the snapshot is
\* written
OrdenOpcion5_hilo_primero ==
    <<"lanzar", "abrir", "volcar", "cerrar", "imprimir", "break">>

\* the statements of option 5 in program order: guardar_en_archivo opens the
\* file for writing, dumps the JSON object and closes the file on leaving the
\* with block; realizar_copia_seguridad starts the thread and returns; then
\* the print and the break
OrdenOpcion5 ==
    <<"abrir", "volcar", "cerrar", "lanzar", "imprimir", "break">>

\* the main thread runs its next statement, and it is the one named
Paso(sentencia) ==
    /\ flujo.main < Len(OrdenOpcion5)
    /\ OrdenOpcion5[flujo.main + 1] = sentencia

\* open(archivo, 'w'): the file exists and is empty
AbrirArchivo ==
    /\ Paso("abrir")
    /\ flujo' = [flujo EXCEPT !.main = @ + 1, !.archivo = "truncado"]
    /\ UNCHANGED <<tareas, cola_prioridad, last, llamadas>>

\* json.dump(data, f, ...): writes through the buffered file, so the file on
\* disk may hold any part of the text
VolcarJson ==
    /\ Paso("volcar")
    /\ flujo' = [flujo EXCEPT !.main = @ + 1, !.archivo = "parcial"]
    /\ last' = [NoCall EXCEPT !.op = "guardar",
                              !.archivo = [existe |-> TRUE,
                                           data |-> guardar_en_archivo(tareas)]]
    /\ UNCHANGED <<tareas, cola_prioridad, llamadas>>

\* leaving the with block: the file is flushed and closed
CerrarArchivo ==
    /\ Paso("cerrar")
    /\ flujo' = [flujo EXCEPT !.main = @ + 1, !.archivo = "completo"]
    /\ UNCHANGED <<tareas, cola_prioridad, last, llamadas>>

\* thread = threading.Thread(target=copiar); thread.start()
LanzarHilo ==
    /\ Paso("lanzar")
    /\ flujo' = [flujo EXCEPT !.main = @ + 1, !.hilo = "iniciado"]
    /\ UNCHANGED <<tareas, cola_prioridad, last, llamadas>>

\* print("Tareas guardadas. Saliendo...")
ImprimirSalida ==
    /\ Paso("imprimir")
    /\ flujo' = [flujo EXCEPT !.main = @ + 1]
    /\ UNCHANGED <<tareas, cola_prioridad, last, llamadas>>

\* break: the menu loop is left
Salir ==
    /\ Paso("break")
    /\ flujo' = [flujo EXCEPT !.main = @ + 1]
    /\ UNCHANGED <<tareas, cola_prioridad, last, llamadas>>

\* the backup thread: shutil.copyfile(archivo, archivo + ".bak") reads the
\* file as it is on disk at that moment
Copiar ==
    /\ flujo.hilo = "iniciado"
    /\ flujo' = [flujo EXCEPT !.hilo = "terminado", !.leido = flujo.archivo]
    /\ UNCHANGED <<tareas, cola_prioridad, last, llamadas>>

\* SpecRespaldo: the menu loop, options 1 to 4, and option 5 with its thread
NextRespaldo ==
    \/ Agregar(ArgsHistoria)
    \/ Mostrar
    \/ Completar(FALSE)
    \/ ObtenerMayor
    \/ AbrirArchivo
    \/ VolcarJson
    \/ CerrarArchivo
    \/ LanzarHilo
    \/ ImprimirSalida
    \/ Salir
    \/ Copiar

SpecRespaldo == Init /\ [][NextRespaldo]_vars

\* ------------------------------------------------------------ properties
Elementos(seq) == {seq[i] : i \in 1..Len(seq)}

Registradas(ts) == {ts[i].nombre : i \in 1..Len(ts)}

NoCompletadas(ts) == {ts[i].nombre : i \in {j \in 1..Len(ts) : ~ts[j].completada}}

Completadas(ts) == Registradas(ts) \ NoCompletadas(ts)

\* the ordering rule: priority ascending, then due date ascending, no due
\* date after every due date
VaAntes(a, b) ==
    \/ a.prioridad < b.prioridad
    \/ /\ a.prioridad = b.prioridad
       /\ \/ a.vencimiento # NoDate /\ b.vencimiento = NoDate
          \/ a.vencimiento # NoDate /\ b.vencimiento # NoDate
             /\ a.vencimiento < b.vencimiento

\* every dependency names a registered, completed task
DependenciasCumplidas(t, ts) ==
    \A d \in Elementos(t.dependencias) : d \in Completadas(ts)

\* C1: agregar_tarea called with a name already in the registry fails with
\* the duplicate-name error and leaves the registry and the heap as they were.
C1_AgregarDuplicada ==
    [][(last'.op = "agregar" /\ last'.nombre \in Registradas(tareas))
        => /\ last'.error = ErrDuplicada
           /\ tareas' = tareas
           /\ cola_prioridad' = cola_prioridad]_vars

C1_Witness ==
    /\ last.op = "agregar"
    /\ last.error = ErrDuplicada
    /\ last.nombre \in Registradas(tareas)
    /\ Len(cola_prioridad) >= 2
    /\ Completadas(tareas) # {}

\* C2 as stated: for a registered task the first completar_tarea on its name
\* succeeds, and every later one fails with the already-completed error and
\* leaves the registry and the heap unchanged.
C2_PrimeraCompletarTieneExito ==
    [][(last'.op = "completar" /\ last'.nombre \in Registradas(tareas))
        => IF last'.nombre \notin llamadas
           THEN last'.error = Ok
           ELSE /\ last'.error = ErrYaCompletada
                /\ tareas' = tareas
                /\ cola_prioridad' = cola_prioridad]_vars

\* C2 amended: completar_tarea on a registered task succeeds exactly when the
\* task's flag is false before the call (so at most once per task, and never
\* for a task that cargar_desde_archivo created as completed); on a completed
\* task it fails with the already-completed error and leaves the registry and
\* the heap unchanged.
C2_CompletarSegunBandera ==
    [][(last'.op = "completar" /\ last'.nombre \in Registradas(tareas))
        => IF last'.nombre \in NoCompletadas(tareas)
           THEN /\ last'.error = Ok
                /\ last'.nombre \in Completadas(tareas')
           ELSE /\ last'.error = ErrYaCompletada
                /\ tareas' = tareas
                /\ cola_prioridad' = cola_prioridad]_vars

C2_Witness ==
    /\ last.op = "completar"
    /\ last.error = ErrYaCompletada
    /\ last.nombre \in llamadas
    /\ \E n \in Completadas(tareas) : n \notin llamadas

\* C3: the completed flag is monotone: a task created by agregar_tarea starts
\* with the flag false, a flag that is true stays true in every later state,
\* and cargar_desde_archivo leaves the tasks registered before it as they were.
C3_CompletadaMonotona ==
    [][/\ Completadas(tareas) \subseteq Completadas(tareas')
       /\ (last'.op = "agregar" /\ last'.error = Ok)
            => last'.nombre \in NoCompletadas(tareas')
       /\ last'.op = "cargar"
            => /\ Len(tareas') >= Len(tareas)
               /\ SubSeq(tareas', 1, Len(tareas)) = tareas]_vars

C3_Witness ==
    /\ last.op = "cargar"
    /\ last.archivo.existe
    /\ Len(tareas) = 2
    /\ tareas[1].completada
    /\ tareas[1].nombre \notin NombresArchivo
    /\ ~tareas[2].completada

C5_SoloNuevasEjecutables ==
    [][(last'.op = "completar" /\ last'.error = Ok)
        => \A n \in Elementos(last'.ejecutables) :
              ~(/\ n \in NoCompletadas(tareas)
                /\ DependenciasCumplidas(Obtener(tareas, n), tareas))]_vars

\* C6: obtener_tarea_mayor_prioridad returns an incomplete task that no
\* incomplete task of the registry goes before under the ordering rule,
\* whether or not the returned task's dependencies are satisfied.
C6_MayorPrioridadEsMinima ==
    (last.op = "obtener" /\ last.tarea # Null)
        => /\ last.tarea[1] \in NoCompletadas(tareas)
           /\ \A n \in NoCompletadas(tareas) :
                 ~VaAntes(Obtener(tareas, n), Obtener(tareas, last.tarea[1]))

C6_Witness ==
    /\ last.op = "obtener"
    /\ last.tarea # Null
    /\ ~DependenciasCumplidas(Obtener(tareas, last.tarea[1]), tareas)
    /\ \E n \in Completadas(tareas) :
          VaAntes(Obtener(tareas, n), Obtener(tareas, last.tarea[1]))

\* C7: obtener_tarea_mayor_prioridad returns nothing exactly when the registry
\* has no incomplete task, and then it leaves the heap empty.
C7_NadaSiiSinPendientes ==
    last.op = "obtener"
        => /\ (last.tarea = Null) <=> (NoCompletadas(tareas) = {})
           /\ last.tarea = Null => cola_prioridad = <<>>

C7_Witness ==
    /\ last.op = "obtener"
    /\ last.tarea = Null
    /\ Len(tareas) = 2

\* C8: mostrar_tareas_ordenadas lists exactly the incomplete tasks of the
\* registry, each once, and no row goes before the row above it under the
\* ordering rule.
C8_VistaOrdenada ==
    last.op = "mostrar"
        => /\ {last.vista[i].nombre : i \in 1..Len(last.vista)} = NoCompletadas(tareas)
           /\ Len(last.vista) = Cardinality(NoCompletadas(tareas))
           /\ \A i, j \in 1..Len(last.vista) :
                 i < j => ~VaAntes(Obtener(tareas, last.vista[j].nombre),
                                   Obtener(tareas, last.vista[i].nombre))

C8_Witness ==
    /\ last.op = "mostrar"
    /\ Len(last.vista) = 2
    /\ last.vista[1].prioridad = last.vista[2].prioridad
    /\ last.vista[1].vencimiento # Null
    /\ last.vista[2].vencimiento = Null
    /\ cola_prioridad[1] = last.vista[1].nombre
    /\ tareas[1].nombre = last.vista[2].nombre

\* C9 as stated: loading the file written by guardar_en_archivo into a fresh
\* SistemaDeTareas gives the same names and, for each name, the same priority,
\* dependencies, due date and completion flag.
C9_IdaYVuelta ==
    last.op = "guardar"
        => LET r == cargar_desde_archivo(<<>>, <<>>, last.archivo)
           IN  /\ r.error = Ok
               /\ Registradas(r.tareas) = Registradas(tareas)
               /\ \A n \in Registradas(tareas) :
                     /\ Obtener(r.tareas, n).prioridad = Obtener(tareas, n).prioridad
                     /\ Obtener(r.tareas, n).dependencias = Obtener(tareas, n).dependencias
                     /\ Obtener(r.tareas, n).vencimiento = Obtener(tareas, n).vencimiento
                     /\ Obtener(r.tareas, n).completada = Obtener(tareas, n).completada

\* C10 as stated: a cargar_desde_archivo that fails leaves the registry and
\* the heap as they were before the call.
C10_CargarSinMutacionParcial ==
    [][(last'.op = "cargar" /\ last'.error # Ok)
        => /\ tareas' = tareas
           /\ cola_prioridad' = cola_prioridad]_vars

\* C11: a task whose dependency list holds a name that was never added is
\* never among the tasks a completar_tarea call reports, whatever the state
\* of its other dependencies.
C11_DependenciaFaltanteBloquea ==
    last.op = "completar"
        => \A n \in Elementos(last.ejecutables) :
              /\ n \in Registradas(tareas)
              /\ \A d \in Elementos(Obtener(tareas, n).dependencias) :
                    d \in Registradas(tareas)

C11_Witness ==
    /\ last.op = "completar"
    /\ last.error = Ok
    /\ \E n \in NoCompletadas(tareas) :
          /\ Ghost \in Elementos(Obtener(tareas, n).dependencias)
          /\ \A d \in Elementos(Obtener(tareas, n).dependencias) :
                d # Ghost => d \in Completadas(tareas)

C13_CompletarDesconocida ==
    [][(last'.op = "completar" /\ last'.nombre \notin Registradas(tareas))
        => /\ last'.error = ErrNoExiste
           /\ last'.ejecutables = <<>>
           /\ tareas' = tareas
           /\ cola_prioridad' = cola_prioridad]_vars

C13_Witness ==
    /\ last.op = "completar"
    /\ last.error = ErrNoExiste
    /\ last.nombre \notin Registradas(tareas)
    /\ NoCompletadas(tareas) # {}
    /\ Completadas(tareas) # {}

\* C14 as stated: cargar_desde_archivo on a file that does not exist returns
\* normally, and afterwards the registry holds no tasks and the heap no
\* entries.
C14_CargarFaltanteVacia ==
    (last.op = "cargar" /\ ~last.archivo.existe)
        => /\ last.error = Ok
           /\ tareas = <<>>
           /\ cola_prioridad = <<>>

\* the number of entries of the heap that are the task named n
Apariciones(cola, n) == Cardinality({i \in 1..Len(cola) : cola[i] = n})

\* C15: obtener_tarea_mayor_prioridad leaves the registry as it was and
\* changes the heap only by discarding completed entries: the entries after
\* the call are entries from before it, every entry that is gone is a
\* completed task, and every incomplete entry, the returned task included,
\* is in the heap exactly once afterwards.
C15_SoloDescartaCompletadas ==
    [][last'.op = "obtener"
        => /\ tareas' = tareas
           /\ Elementos(cola_prioridad') \subseteq Elementos(cola_prioridad)
           /\ Elementos(cola_prioridad) \ Elementos(cola_prioridad')
                 \subseteq Completadas(tareas)
           /\ \A n \in Elementos(cola_prioridad) \cap NoCompletadas(tareas) :
                 Apariciones(cola_prioridad', n) = 1
           /\ last'.tarea # Null => Apariciones(cola_prioridad', last'.tarea[1]) = 1]_vars

C15_Witness ==
    /\ last.op = "obtener"
    /\ last.tarea # Null
    /\ \E n \in Completadas(tareas) : n \notin Elementos(cola_prioridad)
    /\ Elementos(cola_prioridad) = NoCompletadas(tareas)

\* C16: in option 5 the backup thread exists only once the snapshot file is
\* written and closed, so the copy reads the finished file and nothing else;
\* and once the thread is started the main thread's next statement (the
\* success message, then the break) can run whether or not the copy was made.
C16_CopiaTrasEscritura ==
    /\ flujo.hilo # "sin_iniciar" => flujo.archivo = "completo"
    /\ flujo.leido \in {"nada", "completo"}
    /\ (flujo.hilo # "sin_iniciar" /\ flujo.main < Len(OrdenOpcion5))
          => ENABLED (ImprimirSalida \/ Salir)

C16_Witness ==
    /\ flujo.main = Len(OrdenOpcion5)
    /\ flujo.hilo = "iniciado"
    /\ flujo.archivo = "completo"
    /\ last.op = "guardar"
    /\ Len(last.archivo.data) = 2

\* C17: in every state every entry of the heap is a task of the registry, no
\* task is in the heap more than once, and every incomplete task of the
\* registry is in the heap.
C17_ColaYRegistro ==
    /\ Elementos(cola_prioridad) \subseteq Registradas(tareas)
    /\ Cardinality(Elementos(cola_prioridad)) = Len(cola_prioridad)
    /\ NoCompletadas(tareas) \subseteq Elementos(cola_prioridad)

C17_Witness ==
    /\ last.op = "cargar"
    /\ last.error = Ok
    /\ last.archivo.existe
    /\ Len(tareas) = 2
    /\ Len(cola_prioridad) = 1
    /\ cola_prioridad[1] = tareas[2].nombre
    /\ ~tareas[2].completada

\* C18 as stated: two consecutive obtener_tarea_mayor_prioridad calls, with
\* no other call in between, return the same task.
C18_ObtenerIdempotente ==
    [][(last.op = "obtener" /\ last'.op = "obtener")
        => last'.tarea = last.tarea]_vars

\* the incomplete tasks with the priority and the due date of the task named n
MismaClave(ts, n) ==
    {m \in NoCompletadas(ts) :
        /\ Obtener(ts, m).prioridad = Obtener(ts, n).prioridad
        /\ Obtener(ts, m).vencimiento = Obtener(ts, n).vencimiento}

\* C18 amended: two consecutive obtener_tarea_mayor_prioridad calls return
\* nothing both times, or two incomplete tasks with the same priority and the
\* same due date; they return the same task when no other incomplete task
\* has that priority and due date.
C18_ObtenerMismaClave ==
    [][(last.op = "obtener" /\ last'.op = "obtener")
        => /\ tareas' = tareas
           /\ IF last.tarea = Null
              THEN last'.tarea = Null
              ELSE /\ last'.tarea # Null
                   /\ last'.tarea[1] \in MismaClave(tareas, last.tarea[1])
                   /\ MismaClave(tareas, last.tarea[1]) = {last.tarea[1]}
                        => last'.tarea = last.tarea]_vars

C18_Witness ==
    /\ last.op = "obtener"
    /\ last.tarea # Null
    /\ obtener_tarea_mayor_prioridad(tareas, cola_prioridad).tarea # last.tarea
    /\ obtener_tarea_mayor_prioridad(tareas, cola_prioridad).tarea[1]
          \in MismaClave(tareas, last.tarea[1])
    /\ Obtener(tareas, last.tarea[1]).vencimiento # NoDate

\* C19: completar_tarea has no dependency precondition: it fails only for a
\* name that is not registered (not-found error) or a task already completed
\* (already-completed error), and it succeeds for every registered incomplete
\* task, whether or not the task's dependencies are completed or registered.
C19_SinPrecondicionDeDependencias ==
    [][last'.op = "completar"
        => /\ last'.error \in {Ok, ErrNoExiste, ErrYaCompletada}
           /\ last'.error = ErrNoExiste <=> last'.nombre \notin Registradas(tareas)
           /\ last'.error = ErrYaCompletada <=> last'.nombre \in Completadas(tareas)
           /\ last'.error = Ok <=> last'.nombre \in NoCompletadas(tareas)]_vars

C19_Witness ==
    /\ last.op = "completar"
    /\ last.error = Ok
    /\ \E d \in Elementos(Obtener(tareas, last.nombre).dependencias) :
          d \notin Registradas(tareas)
    /\ \E d \in Elementos(Obtener(tareas, last.nombre).dependencias) :
          d \in NoCompletadas(tareas)

\* C20: __lt__ and the sort key order every pair of registered tasks the
\* same way, and in every state with an incomplete task the task that
\* obtener_tarea_mayor_prioridad returns has the priority and the due date
\* of the first row of mostrar_tareas_ordenadas.
C20_OrdenesCoinciden ==
    /\ \A i, j \in 1..Len(tareas) :
          lt(tareas[i], tareas[j])
            <=> ~ClaveMenorIgual(clave(tareas[j]), clave(tareas[i]))
    /\ NoCompletadas(tareas) # {}
          => LET r == obtener_tarea_mayor_prioridad(tareas, cola_prioridad)
                 vista == mostrar_tareas_ordenadas(tareas, cola_prioridad)
             IN  /\ r.tarea # Null
                 /\ vista # <<>>
                 /\ Fila(Obtener(tareas, r.tarea[1])).prioridad = vista[1].prioridad
                 /\ Fila(Obtener(tareas, r.tarea[1])).vencimiento = vista[1].vencimiento

C20_Witness ==
    /\ last.op = "mostrar"
    /\ Len(last.vista) = 2
    /\ last.vista[1].prioridad = last.vista[2].prioridad
    /\ last.vista[1].vencimiento # last.vista[2].vencimiento
    /\ last.vista[2].vencimiento = Null
    /\ obtener_tarea_mayor_prioridad(tareas, cola_prioridad).tarea
          = <<last.vista[1].nombre>>
    /\ tareas[2].nombre = last.vista[1].nombre

====
